---- MODULE Spec2Model ----
(***************************************************************************)
(* Model of the diceware passphrase generator (src/diceware.c, src/main.c). *)
(*                                                                         *)
(* Bytes are integers (their ASCII codes), a word is a sequence of bytes,  *)
(* a word-list file is the sequence of its whitespace-separated tokens and *)
(* a stream position is a token number with an offset into that token.     *)
(* The SQLite database at db_path is the committed table `disk`; the open   *)
(* connection holds the uncommitted view `txn` of a running transaction.    *)
(* The state names the rows of a table by the loads that built them, and   *)
(* RowsOf gives the rows themselves.                                       *)
(***************************************************************************)
EXTENDS Integers, Sequences, FiniteSets, TLC

(***************************************************************************)
(* Program constants.                                                      *)
(***************************************************************************)
NDICE == 5
MAX_DIE_ROLL == 6
MIN_ENTRIES == 7776
WORD_BUF == 32
SCAN_WIDTH == 63
EXIT_SUCCESS == 0
EXIT_FAILURE == 1
LIMB == 65536

(***************************************************************************)
(* Bounds of the model.                                                    *)
(***************************************************************************)
MaxRuns == 2
MaxWords == 2
FewRecords == 3
InsertFaultAt == 2
MaxGarbage == 1
MaxBusy == 1

SP == 32
NL == 10

RECURSIVE Pow(_, _)
Pow(b, e) == IF e = 0 THEN 1 ELSE b * Pow(b, e - 1)

(***************************************************************************)
(* The indices of the glossary: 5 decimal digits, each in 1..6.  The sets  *)
(* and sequences of this size are built by halving their range, which      *)
(* lets TLC evaluate each of them once.                                    *)
(***************************************************************************)
DecimalDigit(n, k) == (n \div Pow(10, k)) % 10

RECURSIVE DigitsIn(_, _, _, _)
DigitsIn(n, k, lo, hi) ==
    k = 0 \/ (DecimalDigit(n, k - 1) \in lo..hi /\ DigitsIn(n, k - 1, lo, hi))

IsValidIndex(n) ==
    /\ n \in 11111..66666
    /\ DigitsIn(n, 5, 1, 6)

RECURSIVE ValidIn(_, _)
ValidIn(lo, hi) ==
    IF lo > hi THEN {}
    ELSE IF lo = hi THEN (IF IsValidIndex(lo) THEN {lo} ELSE {})
    ELSE ValidIn(lo, (lo + hi) \div 2) \cup ValidIn(((lo + hi) \div 2) + 1, hi)

ValidIndices == ValidIn(11111, 66666)

ForeignIds == {0}

IdSpace == ValidIndices \cup ForeignIds

(***************************************************************************)
(* Word lists offered to dw_create.  Canon is the complete list: record k  *)
(* pairs the k-th valid index with a five-letter word spelling its digits.  *)
(***************************************************************************)
CanonDigit(k, d) == (((k - 1) \div Pow(MAX_DIE_ROLL, NDICE - d)) % MAX_DIE_ROLL) + 1

\* The digits of record k from the d-th on, as bytes above base.
RECURSIVE CanonToken(_, _, _)
CanonToken(base, k, d) ==
    IF d > NDICE THEN <<>>
    ELSE <<base + CanonDigit(k, d)>> \o CanonToken(base, k, d + 1)

IndexToken(k) == CanonToken(48, k, 1)

WordToken(k) == CanonToken(96, k, 1)

RECURSIVE CanonRecords(_, _)
CanonRecords(lo, hi) ==
    IF lo > hi THEN <<>>
    ELSE IF lo = hi THEN <<IndexToken(lo), WordToken(lo)>>
    ELSE CanonRecords(lo, (lo + hi) \div 2)
            \o CanonRecords(((lo + hi) \div 2) + 1, hi)

Canon == CanonRecords(1, MIN_ENTRIES)

RECURSIVE LongWord(_)
LongWord(n) == IF n = 0 THEN <<>> ELSE <<122>> \o LongWord(n - 1)

ZeroToken == <<48>>

\* A record whose index is no integer: "x w".
BadRecord == <<<<120>>, <<119>>>>

WordListNames ==
    {"full", "few", "extra", "foreign", "dupfirst", "duplast", "longword",
     "malformed", "noword", "overlong"}

WordListFile ==
    [full |-> Canon,
     few |-> SubSeq(Canon, 1, 2 * FewRecords),
     extra |-> Canon \o <<ZeroToken, <<122, 101, 114, 111>>>>,
     foreign |-> [Canon EXCEPT ![2 * MIN_ENTRIES - 1] = ZeroToken],
     dupfirst |-> <<Canon[1], Canon[2], Canon[1], <<100, 117, 112>>>>
                     \o SubSeq(Canon, 3, 2 * MIN_ENTRIES),
     duplast |-> Canon \o <<Canon[2 * MIN_ENTRIES - 1], <<100, 117, 112>>>>,
     longword |-> [Canon EXCEPT ![2] = LongWord(WORD_BUF + 8),
                                ![4] = LongWord(WORD_BUF - 1),
                                ![6] = LongWord(WORD_BUF)],
     malformed |-> SubSeq(Canon, 1, 2 * FewRecords) \o BadRecord
                      \o SubSeq(Canon, 2 * FewRecords + 1, 2 * MIN_ENTRIES),
     noword |-> SubSeq(Canon, 1, 2 * FewRecords)
                   \o <<IndexToken(FewRecords + 1)>>
                   \o SubSeq(Canon, 2 * FewRecords + 3, 2 * MIN_ENTRIES),
     overlong |-> [Canon EXCEPT ![4] = LongWord(SCAN_WIDTH + 5)]]

(***************************************************************************)
(* fscanf(input, "%d %63s", &index, word)                                   *)
(***************************************************************************)
IsDigit(c) == c \in 48..57

IsSign(c) == c \in {43, 45}

\* Skipping white space moves past the end of a token to the next one.
SkipWS(file, pos) ==
    IF pos.t <= Len(file) /\ pos.o >= Len(file[pos.t])
    THEN [t |-> pos.t + 1, o |-> 0]
    ELSE pos

AtEOF(file, pos) == pos.t > Len(file)

RECURSIVE ScanDigits(_, _, _)
ScanDigits(tok, o, acc) ==
    IF o < Len(tok) /\ IsDigit(tok[o + 1])
    THEN ScanDigits(tok, o + 1, acc * 10 + (tok[o + 1] - 48))
    ELSE [val |-> acc, o |-> o]

\* %d on the token at pos, the digits d found from offset start on: at least
\* one digit is needed; a leading '-' negates.
ScanIntDigits(tok, pos, start, d) ==
    IF d.o = start
    THEN [ok |-> FALSE, eof |-> FALSE, val |-> 0, pos |-> pos]
    ELSE [ok |-> TRUE, eof |-> FALSE,
          val |-> IF start > pos.o /\ tok[pos.o + 1] = 45 THEN 0 - d.val ELSE d.val,
          pos |-> [t |-> pos.t, o |-> d.o]]

ScanIntFrom(tok, pos, start) ==
    ScanIntDigits(tok, pos, start, ScanDigits(tok, start, 0))

\* %d at a position where white space has been skipped: an optional sign,
\* then the digits.
ScanIntAt(file, pos) ==
    IF AtEOF(file, pos)
    THEN [ok |-> FALSE, eof |-> TRUE, val |-> 0, pos |-> pos]
    ELSE ScanIntFrom(file[pos.t], pos,
                     IF IsSign(file[pos.t][pos.o + 1]) THEN pos.o + 1 ELSE pos.o)

ScanInt(file, pos) == ScanIntAt(file, SkipWS(file, pos))

\* %63s: at most SCAN_WIDTH bytes of the token at the position.
ScanWordTo(tok, pos, last) ==
    [ok |-> TRUE, word |-> SubSeq(tok, pos.o + 1, last),
     pos |-> [t |-> pos.t, o |-> last]]

ScanWordAt(file, pos) ==
    IF AtEOF(file, pos) THEN [ok |-> FALSE, word |-> <<>>, pos |-> pos]
    ELSE ScanWordTo(file[pos.t], pos,
                    IF Len(file[pos.t]) - pos.o > SCAN_WIDTH
                    THEN pos.o + SCAN_WIDTH ELSE Len(file[pos.t]))

ScanWord(file, pos) == ScanWordAt(file, SkipWS(file, pos))

\* The value returned is the number of conversions made, or -1 at end of
\* input before the first one.
ScannedBoth(d, w) ==
    IF ~w.ok
    THEN [rc |-> 1, index |-> d.val, word |-> <<>>, pos |-> w.pos]
    ELSE [rc |-> 2, index |-> d.val, word |-> w.word, pos |-> w.pos]

ScannedInt(file, d) ==
    IF ~d.ok
    THEN [rc |-> IF d.eof THEN -1 ELSE 0, index |-> 0, word |-> <<>>, pos |-> d.pos]
    ELSE ScannedBoth(d, ScanWord(file, d.pos))

fscanf(file, pos) == ScannedInt(file, ScanInt(file, pos))

(***************************************************************************)
(* The table "diceware (id INTEGER PRIMARY KEY, word TEXT)": a map from    *)
(* ids to words, NoRow where the id has no row.  %63s never yields an      *)
(* empty word, so the empty sequence is free to mean "no row".             *)
(***************************************************************************)
NoRow == <<>>

RECURSIVE EmptyIn(_, _)
EmptyIn(lo, hi) ==
    IF lo > hi THEN <<>>
    ELSE IF lo = hi THEN (IF lo \in IdSpace THEN lo :> NoRow ELSE <<>>)
    ELSE EmptyIn(lo, (lo + hi) \div 2) @@ EmptyIn(((lo + hi) \div 2) + 1, hi)

\* The table without a row: NoRow at every id of IdSpace.
EmptyRows == EmptyIn(0, 66666)

Row(rows, id) ==
    IF id \in IdSpace THEN rows[id]
    ELSE IF id \in DOMAIN rows THEN rows[id] ELSE NoRow

PutRow(rows, id, word) ==
    IF id \in IdSpace THEN [rows EXCEPT ![id] = word] ELSE (id :> word) @@ rows

\* An insert into a table without its primary key: a second record of an id
\* is taken as well (the fault C16 excludes).
INSERT_WORD_replace(rows, id, word) ==
    [done |-> TRUE, rows |-> PutRow(rows, id, word)]

\* INSERT INTO diceware (id, word) VALUES (?, ?) with id INTEGER PRIMARY KEY:
\* refused when the id has a row.
INSERT_WORD(rows, id, word) ==
    IF Row(rows, id) # NoRow
    THEN [done |-> FALSE, rows |-> rows]
    ELSE [done |-> TRUE, rows |-> PutRow(rows, id, word)]

\* SELECT word FROM diceware WHERE id = ?
GET_WORD(rows, id) == Row(rows, id)

(***************************************************************************)
(* _dw_insert.  st carries the insert statement handle, the rows of the    *)
(* running transaction and the number of records inserted so far; env is   *)
(* what goes wrong outside the program: "fopen" (the word list cannot be   *)
(* opened), "prepare" (sqlite3_prepare_v2 fails), "step" (sqlite3_step of  *)
(* insert number InsertFaultAt fails), or "none".  A busy step is taken    *)
(* again and changes nothing, so only its final result appears here.       *)
(***************************************************************************)
\* The result of an sqlite3 call whose result the code tests: the call and
\* its result code.
SqlResult(call, code) == [call |-> call, rc |-> code]

NoSql == SqlResult("none", "SQLITE_OK")

InsertStepped(r) ==
    [rc |-> IF r.done THEN 0 ELSE -1, insert |-> "live", rows |-> r.rows,
     sql |-> SqlResult("INSERT_WORD",
                       IF r.done THEN "SQLITE_DONE" ELSE "SQLITE_CONSTRAINT")]

_dw_insert(st, index, word, env) ==
    IF st.insert = "null" /\ env = "prepare"
    THEN [rc |-> -1, insert |-> "null", rows |-> st.rows,
          sql |-> SqlResult("sqlite3_prepare_v2", "SQLITE_ERROR")]
    ELSE IF env = "step" /\ st.count + 1 = InsertFaultAt
    THEN [rc |-> -1, insert |-> "live", rows |-> st.rows,
          sql |-> SqlResult("INSERT_WORD", "SQLITE_ERROR")]
    ELSE InsertStepped(INSERT_WORD(st.rows, index, word))

(***************************************************************************)
(* _dw_populate: one pass of the for (;;) loop, then the loop, then the    *)
(* test of the count.  st is [pos, count, rows, insert, sql, done]: the    *)
(* stream position, the count, the table, the statement handle, the result *)
(* of the last sqlite3 call and whether the loop was left.                 *)
(***************************************************************************)
\* rc == 2: the record s is inserted, with result r.
PopulateInserted(st, s, r) ==
    IF r.rc = 0
    THEN [st EXCEPT !.pos = s.pos, !.rows = r.rows, !.sql = r.sql,
                    !.insert = r.insert, !.count = st.count + 1]
    ELSE [st EXCEPT !.pos = s.pos, !.insert = r.insert, !.sql = r.sql,
                    !.done = TRUE]

PopulateScanned(st, s, env) ==
    IF s.rc = 2
    THEN PopulateInserted(st, s, _dw_insert(st, s.index, s.word, env))
    ELSE [st EXCEPT !.pos = s.pos, !.done = TRUE]

PopulateIter(st, file, env) ==
    IF st.done THEN st ELSE PopulateScanned(st, fscanf(file, st.pos), env)

\* n passes of the loop, in order; nothing happens after the break.
RECURSIVE PopulateIters(_, _, _, _)
RECURSIVE PopulateRest(_, _, _, _)
PopulateRest(first, file, env, n) ==
    IF first.done THEN first ELSE PopulateIters(first, file, env, n)

PopulateIters(st, file, env, n) ==
    IF n = 0 \/ st.done THEN st
    ELSE IF n = 1 THEN PopulateIter(st, file, env)
    ELSE PopulateRest(PopulateIters(st, file, env, n \div 2), file, env,
                      n - (n \div 2))

\* The loop runs until it breaks.
RECURSIVE PopulateLoop(_, _, _, _)
RECURSIVE PopulateMore(_, _, _, _)
PopulateMore(s, file, env, n) ==
    IF s.done THEN s ELSE PopulateLoop(s, file, env, 2 * n)

PopulateLoop(st, file, env, n) ==
    PopulateMore(PopulateIters(st, file, env, n), file, env, n)

\* A populate that does not test the count (the fault C2 excludes).
PopulateReturn_unchecked(s) ==
    [rc |-> 0, rows |-> s.rows, insert |-> s.insert, count |-> s.count,
     sql |-> s.sql]

\* if (count < 7776) return -1; return 0;
PopulateReturn(s) ==
    [rc |-> IF s.count < MIN_ENTRIES THEN -1 ELSE 0,
     rows |-> s.rows, insert |-> s.insert, count |-> s.count, sql |-> s.sql]

_dw_populate(rows, insert, file, env) ==
    IF env = "fopen"
    THEN [rc |-> -1, rows |-> rows, insert |-> insert, count |-> 0,
          sql |-> NoSql]
    ELSE PopulateReturn(PopulateLoop([pos |-> [t |-> 1, o |-> 0], count |-> 0,
                                      rows |-> rows, insert |-> insert,
                                      sql |-> NoSql, done |-> FALSE],
                                     file, env, Len(file) + 1))

(***************************************************************************)
(* The rows of a table are named in the state by the loads that built them *)
(* from the empty table: a sequence of [file, env], one for each run of    *)
(* _dw_populate, file the name of the word list and env what the storage   *)
(* did.  Loaded keeps the result of each load into the empty table.        *)
(***************************************************************************)
PopulateEnvs == {"none", "fopen", "prepare", "step"}

LoadedFrom(file) ==
    [none |-> _dw_populate(EmptyRows, "null", file, "none"),
     fopen |-> _dw_populate(EmptyRows, "null", file, "fopen"),
     prepare |-> _dw_populate(EmptyRows, "null", file, "prepare"),
     step |-> _dw_populate(EmptyRows, "null", file, "step")]

Loaded ==
    [full |-> LoadedFrom(WordListFile.full),
     few |-> LoadedFrom(WordListFile.few),
     extra |-> LoadedFrom(WordListFile.extra),
     foreign |-> LoadedFrom(WordListFile.foreign),
     dupfirst |-> LoadedFrom(WordListFile.dupfirst),
     duplast |-> LoadedFrom(WordListFile.duplast),
     longword |-> LoadedFrom(WordListFile.longword),
     malformed |-> LoadedFrom(WordListFile.malformed),
     noword |-> LoadedFrom(WordListFile.noword),
     overlong |-> LoadedFrom(WordListFile.overlong)]

NoLoads == <<>>

RECURSIVE RowsOf(_)
RowsOf(loads) ==
    IF loads = NoLoads THEN EmptyRows
    ELSE IF Len(loads) = 1 THEN Loaded[loads[1].file][loads[1].env].rows
    ELSE _dw_populate(RowsOf(SubSeq(loads, 1, Len(loads) - 1)), "live",
                      WordListFile[loads[Len(loads)].file],
                      loads[Len(loads)].env).rows

\* _dw_populate of the word list called name on the table built by loads.
Populate(loads, insert, name, env) ==
    IF loads = NoLoads /\ insert = "null" THEN Loaded[name][env]
    ELSE _dw_populate(RowsOf(loads), insert, WordListFile[name], env)

(***************************************************************************)
(* SQL of the transaction.  A view is [table, rows]: whether the table     *)
(* exists and the loads that built its rows.  txn is the view of the       *)
(* running transaction.                                                    *)
(***************************************************************************)
NoTxn == [active |-> FALSE, table |-> FALSE, rows |-> NoLoads]

BEGIN_TRANSACTION(d) == [active |-> TRUE, table |-> d.table, rows |-> d.rows]

\* CREATE TABLE IF NOT EXISTS: no error when the table exists (the fault C20
\* excludes).
CREATE_TABLES_if_not_exists(t) ==
    [ok |-> TRUE, txn |-> [t EXCEPT !.table = TRUE]]

\* CREATE TABLE diceware (...): an error when the table exists.
CREATE_TABLES(t) ==
    IF t.table THEN [ok |-> FALSE, txn |-> t]
    ELSE [ok |-> TRUE, txn |-> [t EXCEPT !.table = TRUE]]

\* END TRANSACTION: what the transaction wrote becomes the database.
END_TRANSACTION(d, t) == [table |-> t.table, rows |-> t.rows]

\* A rollback that keeps what the transaction wrote (the fault C1 excludes).
UNDO_TRANSACTION_kept(d, t) == [table |-> t.table, rows |-> t.rows]

\* ROLLBACK TRANSACTION: the database stays as it was.
UNDO_TRANSACTION(d, t) == d

\* What a statement of the connection reads.
View(d, t) ==
    IF t.active THEN [table |-> t.table, rows |-> RowsOf(t.rows)]
    ELSE [table |-> d.table, rows |-> RowsOf(d.rows)]

(***************************************************************************)
(* dw_close: sqlite3_close first, then sqlite3_finalize of each statement. *)
(* sqlite3_close refuses (SQLITE_BUSY) and leaves the connection open      *)
(* while a prepared statement of it is not finalized; a connection that    *)
(* does close abandons its running transaction.                            *)
(***************************************************************************)
Finalize(stmt) == IF stmt # "null" THEN "finalized" ELSE stmt

CloseRefused(h) == h.insert = "live" \/ h.query = "live"

dw_close(h, t) ==
    [dw |-> [db |-> IF CloseRefused(h) THEN h.db ELSE "closed",
             insert |-> Finalize(h.insert),
             query |-> Finalize(h.query)],
     txn |-> IF CloseRefused(h) THEN t ELSE NoTxn]

\* dw_open, when sqlite3_open succeeds.
dw_open == [db |-> "open", insert |-> "null", query |-> "null"]

(***************************************************************************)
(* _dw_get_word.  env says whether preparing and stepping the query work   *)
(* as far as the storage is concerned.  The result carries the size bytes  *)
(* strncpy leaves in out: the word and its terminator when the word is     *)
(* shorter than size, else its first size bytes and no terminator.         *)
(***************************************************************************)
strncpy(word, size) ==
    IF Len(word) < size
    THEN [bytes |-> word, terminated |-> TRUE]
    ELSE [bytes |-> SubSeq(word, 1, size), terminated |-> FALSE]

\* A lookup that answers the empty word for an index without a row (the
\* fault C18 excludes).
GotWord_default(word, size) ==
    IF word = NoRow
    THEN [rc |-> 0, query |-> "live", out |-> strncpy(<<>>, size),
          sql |-> SqlResult("GET_WORD", "SQLITE_DONE")]
    ELSE [rc |-> 0, query |-> "live", out |-> strncpy(word, size),
          sql |-> SqlResult("GET_WORD", "SQLITE_ROW")]

GotWord(word, size) ==
    IF word = NoRow
    THEN [rc |-> -1, query |-> "live", out |-> strncpy(<<>>, size),
          sql |-> SqlResult("GET_WORD", "SQLITE_DONE")]
    ELSE [rc |-> 0, query |-> "live", out |-> strncpy(word, size),
          sql |-> SqlResult("GET_WORD", "SQLITE_ROW")]

_dw_get_word(h, view, idx, size, env) ==
    IF h.query = "null" /\ (~env.prepare \/ ~view.table)
    THEN [rc |-> -1, query |-> "null", out |-> strncpy(<<>>, size),
          sql |-> SqlResult("sqlite3_prepare_v2", "SQLITE_ERROR")]
    ELSE IF ~env.step
    THEN [rc |-> -1, query |-> "live", out |-> strncpy(<<>>, size),
          sql |-> SqlResult("GET_WORD", "SQLITE_ERROR")]
    ELSE GotWord(GET_WORD(view.rows, idx), size)

(***************************************************************************)
(* dw_generate: the index of one word from NDICE draws of                  *)
(* arc4random_uniform(MAX_DIE_ROLL), in a uint32_t.                        *)
(***************************************************************************)
\* A uint32_t is two 16-bit limbs, hi * LIMB + lo; what does not fit in hi is
\* lost, as in the machine.
U32Zero == [hi |-> 0, lo |-> 0]

U32MulAdd(n, m, a) ==
    LET low == n.lo * m + a IN
    [hi |-> (n.hi * m + (low \div LIMB)) % LIMB, lo |-> low % LIMB]

U32Int(n) == n.hi * LIMB + n.lo

\* The values arc4random_uniform(upper_bound) may return.
arc4random_uniform(upper_bound) == 0..(upper_bound - 1)

\* A die step that forgets the + 1 (the fault C7 excludes).
DieStep_zero_based(n, raw) == U32MulAdd(n, 10, raw)

\* n *= 10; n += arc4random_uniform(MAX_DIE_ROLL) + 1;
DieStep(n, raw) == U32MulAdd(n, 10, raw + 1)

RECURSIVE RollIndexFrom(_, _, _)
RollIndexFrom(n, draws, j) ==
    IF j > Len(draws) THEN n ELSE RollIndexFrom(DieStep(n, draws[j]), draws, j + 1)

RollIndex(draws) == U32Int(RollIndexFrom(U32Zero, draws, 1))

\* A print of the word without the space after it (the fault C5 excludes).
PrintWord_bare(out, garbage) ==
    IF out.terminated THEN out.bytes ELSE out.bytes \o garbage

\* fprintf(output, "%s ", word): the bytes of the buffer up to its
\* terminator; without one, the bytes that follow the buffer in memory are
\* printed as well, up to the first zero byte.
PrintWord(out, garbage) ==
    (IF out.terminated THEN out.bytes ELSE out.bytes \o garbage) \o <<SP>>

\* return EXIT_SUCCESS, whatever rc holds.
main_return(rc) == EXIT_SUCCESS

(***************************************************************************)
(* The state.                                                              *)
(***************************************************************************)
VARIABLES
    runs,       \* processes started so far
    pc,         \* where the running process is
    word_file,  \* main's word_file: "NULL" or the name of a word list
    len,        \* main's len
    dw,         \* struct diceware: db, insert, query
    txn,        \* the view of the connection's running transaction
    disk,       \* the database committed at db_path
    disk0,      \* disk when the process started
    output,     \* the bytes written to stdout
    i,          \* dw_generate's i
    roll,       \* dw_generate's n and j, and the draws behind n
    rolled,     \* the indices looked up by this process, in order
    wordbuf,    \* dw_generate's word[32] as the last lookup left it
    spill,      \* the bytes that followed the buffer at each word printed
    count,      \* _dw_populate's count
    busy,       \* consecutive SQLITE_BUSY results of the running retry loop,
                \* counted modulo MaxBusy + 1
    sql,        \* the last sqlite3 call whose result was tested, and the result
    ret,        \* the value each core function returned to its caller
    exitCode    \* the exit status, once exited

vars == <<runs, pc, word_file, len, dw, txn, disk, disk0, output, i, roll,
          rolled, wordbuf, spill, count, busy, sql, ret, exitCode>>

NoHandle == [db |-> "null", insert |-> "null", query |-> "null"]

NoRoll == [n |-> U32Zero, j |-> 0, draws |-> <<>>]

\* The buffer before a lookup has filled it.
NoWord == [bytes |-> <<>>, terminated |-> FALSE]

FreshDisk == [table |-> FALSE, rows |-> NoLoads]

\* A database file made earlier by other means: the table, holding the first
\* FewRecords entries only.
PartialDisk == [table |-> TRUE, rows |-> <<[file |-> "few", env |-> "none"]>>]

\* What the file at db_path may hold before the first process starts.
FirstDisks == {FreshDisk, PartialDisk}

\* The draws of arc4random_uniform tried for a word: 11111, 11112, 11113, 66666.
RollSamples ==
    {<<0, 0, 0, 0, 0>>, <<0, 0, 0, 0, 1>>, <<0, 0, 0, 0, 2>>, <<5, 5, 5, 5, 5>>}

\* Every sequence of NDICE draws.
AllDraws == [1..NDICE -> arc4random_uniform(MAX_DIE_ROLL)]

\* What may follow the buffer in memory, up to the first zero byte.
Garbage == {[k \in 1..m |-> 71] : m \in 0..MaxGarbage}

LookupEnvs == [prepare : BOOLEAN, step : BOOLEAN]

Returned(f) == f \in DOMAIN ret

Failed(f) == Returned(f) /\ ret[f] < 0

Init ==
    /\ runs = 0
    /\ pc = "start"
    /\ word_file = "NULL"
    /\ len = 0
    /\ dw = NoHandle
    /\ txn = NoTxn
    /\ disk \in FirstDisks
    /\ disk0 = disk
    /\ output = <<>>
    /\ i = 0
    /\ roll = NoRoll
    /\ rolled = <<>>
    /\ wordbuf = NoWord
    /\ spill = <<>>
    /\ count = 0
    /\ busy = 0
    /\ sql = NoSql
    /\ ret = <<>>
    /\ exitCode = EXIT_SUCCESS

(***************************************************************************)
(* main: a new process parses its arguments.  What an earlier process left *)
(* uncommitted or open is gone with it.                                    *)
(***************************************************************************)
MainStart ==
    /\ pc \in {"start", "exited"}
    /\ runs < MaxRuns
    /\ runs' = runs + 1
    /\ dw' = NoHandle
    /\ txn' = NoTxn
    /\ disk0' = disk
    /\ output' = <<>>
    /\ i' = 0
    /\ roll' = NoRoll
    /\ rolled' = <<>>
    /\ wordbuf' = NoWord
    /\ spill' = <<>>
    /\ count' = 0
    /\ busy' = 0
    /\ sql' = NoSql
    /\ ret' = <<>>
    /\ \E opt \in {"run", "v", "h", "usage"} :
          \/ /\ opt = "run"
             /\ \E w \in {"NULL"} \cup WordListNames, l \in 0..MaxWords :
                   word_file' = w /\ len' = l
             /\ pc' = "open"
             /\ exitCode' = EXIT_SUCCESS
          \/ /\ opt \in {"v", "h"}
             /\ pc' = "exited"
             /\ exitCode' = EXIT_SUCCESS
             /\ word_file' = "NULL" /\ len' = 4
          \/ /\ opt = "usage"
             /\ pc' = "exited"
             /\ exitCode' = EXIT_FAILURE
             /\ word_file' = "NULL" /\ len' = 4
    /\ UNCHANGED disk

\* main after dw_open or dw_create returned rc < 0: goto main_exit.
MainExit(f, h, t) ==
    /\ ret' = (f :> -1) @@ ret
    /\ dw' = h
    /\ txn' = t
    /\ pc' = "exited"
    /\ exitCode' = main_return(EXIT_FAILURE)

InitFn == IF word_file = "NULL" THEN "dw_open" ELSE "dw_create"

\* dw_open, called by main or first thing by dw_create.
DwOpen ==
    /\ pc = "open"
    /\ \E ok \in BOOLEAN :
          /\ sql' = SqlResult("sqlite3_open",
                              IF ok THEN "SQLITE_OK" ELSE "SQLITE_CANTOPEN")
          /\ IF ok
             THEN /\ dw' = dw_open
                  /\ IF word_file = "NULL"
                     THEN pc' = "loaded" /\ ret' = ("dw_open" :> 0) @@ ret
                     ELSE pc' = "begin" /\ ret' = ret
                  /\ UNCHANGED <<txn, exitCode>>
             ELSE MainExit(InitFn, dw, txn)
    /\ UNCHANGED <<runs, word_file, len, disk, disk0, output, i, roll, rolled,
                   wordbuf, spill, count, busy>>

(***************************************************************************)
(* dw_create, one action for each statement it executes.                   *)
(***************************************************************************)
\* The result codes sqlite3_exec may answer.
ExecResults == {"SQLITE_OK", "SQLITE_BUSY", "SQLITE_ERROR"}

\* The count of consecutive busy results after one more of them.
BusyAgain(n) == (n + 1) % (MaxBusy + 1)

\* sqlite3_exec(BEGIN_TRANSACTION), once: if (rc != SQLITE_OK) return -1.
CreateBegin ==
    /\ pc = "begin"
    /\ \E res \in ExecResults :
          /\ sql' = SqlResult("BEGIN_TRANSACTION", res)
          /\ IF res = "SQLITE_OK"
             THEN /\ txn' = BEGIN_TRANSACTION(disk)
                  /\ pc' = "schema"
                  /\ UNCHANGED <<dw, ret, exitCode>>
             ELSE MainExit("dw_create", dw, txn)
    /\ UNCHANGED <<runs, word_file, len, disk, disk0, output, i, roll, rolled,
                   wordbuf, spill, count, busy>>

\* What sqlite3_exec(CREATE_TABLES) answers when the storage answers res.
SchemaResult(res) ==
    IF res = "SQLITE_OK" /\ ~CREATE_TABLES(txn).ok THEN "SQLITE_ERROR" ELSE res

\* sqlite3_exec(CREATE_TABLES), once:
\* if (rc != SQLITE_OK) { dw_close(dw); return -1; }
CreateSchema ==
    /\ pc = "schema"
    /\ \E res \in ExecResults :
          /\ sql' = SqlResult("CREATE_TABLES", SchemaResult(res))
          /\ IF SchemaResult(res) = "SQLITE_OK"
             THEN /\ txn' = CREATE_TABLES(txn).txn
                  /\ pc' = "populate"
                  /\ UNCHANGED <<dw, ret, exitCode>>
             ELSE MainExit("dw_create", dw_close(dw, txn).dw,
                           dw_close(dw, txn).txn)
    /\ UNCHANGED <<runs, word_file, len, disk, disk0, output, i, roll, rolled,
                   wordbuf, spill, count, busy>>

\* sqlite3_step of the insert answered SQLITE_BUSY: it is called again.
InsertBusy ==
    /\ pc = "populate"
    /\ busy' = BusyAgain(busy)
    /\ sql' = SqlResult("INSERT_WORD", "SQLITE_BUSY")
    /\ UNCHANGED <<runs, pc, word_file, len, dw, txn, disk, disk0, output, i,
                   roll, rolled, wordbuf, spill, count, ret, exitCode>>

Populated(r, env) ==
    /\ txn' = [txn EXCEPT !.rows = Append(@, [file |-> word_file, env |-> env])]
    /\ dw' = [dw EXCEPT !.insert = r.insert]
    /\ count' = r.count
    /\ sql' = IF r.sql = NoSql THEN sql ELSE r.sql
    /\ pc' = IF r.rc < 0 THEN "rollback" ELSE "commit"

\* An insert was stepped, and answered busy, only if the word list was
\* opened and the statement prepared.
CreatePopulate ==
    /\ pc = "populate"
    /\ \E env \in PopulateEnvs :
          /\ sql.rc = "SQLITE_BUSY" => env \in {"none", "step"}
          /\ Populated(Populate(txn.rows, dw.insert, word_file, env), env)
    /\ busy' = 0
    /\ UNCHANGED <<runs, word_file, len, disk, disk0, output, i, roll, rolled, wordbuf,
                   spill, ret, exitCode>>

CreateRollback ==
    /\ pc = "rollback"
    /\ \E res \in ExecResults :
          /\ sql' = SqlResult("UNDO_TRANSACTION", res)
          /\ CASE res = "SQLITE_BUSY" ->
                  /\ busy' = BusyAgain(busy)
                  /\ UNCHANGED <<pc, dw, txn, disk, ret, exitCode>>
            [] res = "SQLITE_ERROR" ->
                  /\ busy' = 0
                  /\ MainExit("dw_create", dw, txn)
                  /\ UNCHANGED disk
            [] res = "SQLITE_OK" ->
                  /\ busy' = 0
                  /\ disk' = UNDO_TRANSACTION(disk, txn)
                  /\ MainExit("dw_create", dw_close(dw, NoTxn).dw,
                              dw_close(dw, NoTxn).txn)
    /\ UNCHANGED <<runs, word_file, len, disk0, output, i, roll, rolled, wordbuf, spill,
                   count>>

\* A commit loop that is never left: do { ... } while (1) (the fault C19
\* excludes).
CreateCommit_stuck ==
    /\ pc = "commit"
    /\ busy' = BusyAgain(busy)
    /\ sql' = SqlResult("END_TRANSACTION", "SQLITE_BUSY")
    /\ UNCHANGED <<runs, pc, word_file, len, dw, txn, disk, disk0, output, i,
                   roll, rolled, wordbuf, spill, count, ret, exitCode>>

\* do { rc = sqlite3_exec(END_TRANSACTION) } while (rc == SQLITE_BUSY);
CreateCommit ==
    /\ pc = "commit"
    /\ \E res \in ExecResults :
          /\ sql' = SqlResult("END_TRANSACTION", res)
          /\ CASE res = "SQLITE_BUSY" ->
                  /\ busy' = BusyAgain(busy)
                  /\ UNCHANGED <<pc, dw, txn, disk, ret, exitCode>>
            [] res = "SQLITE_ERROR" ->
                  /\ busy' = 0
                  /\ MainExit("dw_create", dw_close(dw, txn).dw,
                              dw_close(dw, txn).txn)
                  /\ UNCHANGED disk
            [] res = "SQLITE_OK" ->
                  /\ busy' = 0
                  /\ disk' = END_TRANSACTION(disk, txn)
                  /\ txn' = NoTxn
                  /\ ret' = ("dw_create" :> 0) @@ ret
                  /\ pc' = "loaded"
                  /\ UNCHANGED <<dw, exitCode>>
    /\ UNCHANGED <<runs, word_file, len, disk0, output, i, roll, rolled, wordbuf, spill,
                   count>>

(***************************************************************************)
(* main calls dw_generate; one action for each pass of its loop.           *)
(***************************************************************************)
MainGenerate ==
    /\ pc = "loaded"
    /\ pc' = "generate"
    /\ i' = 0
    /\ UNCHANGED <<runs, word_file, len, dw, txn, disk, disk0, output, roll,
                   rolled, wordbuf, spill, count, busy, sql, ret, exitCode>>

\* Whether the statements of the connection see the table.
TableSeen == IF txn.active THEN txn.table ELSE disk.table

\* sqlite3_step of the query answered SQLITE_BUSY: it is called again.  The
\* query is stepped only if it is, or can be, prepared.
LookupBusy ==
    /\ pc = "generate"
    /\ i < len
    /\ dw.query # "null" \/ TableSeen
    /\ busy' = BusyAgain(busy)
    /\ sql' = SqlResult("GET_WORD", "SQLITE_BUSY")
    /\ UNCHANGED <<runs, pc, word_file, len, dw, txn, disk, disk0, output, i,
                   roll, rolled, wordbuf, spill, count, ret, exitCode>>

\* A loop that tests the lookup's result only after printing the buffer (the
\* fault C8 excludes).
Looked_late(n, r, wrote) ==
    /\ rolled' = Append(rolled, U32Int(n))
    /\ dw' = [dw EXCEPT !.query = r.query]
    /\ sql' = r.sql
    /\ wordbuf' = r.out
    /\ output' = output \o PrintWord(r.out, <<>>)
    /\ IF r.rc # 0 \/ ~wrote
       THEN /\ ret' = ("dw_generate" :> -1) @@ ret
            /\ pc' = "cleanup"
            /\ UNCHANGED <<i, spill>>
       ELSE /\ spill' = Append(spill, <<>>)
            /\ i' = i + 1
            /\ UNCHANGED <<pc, ret>>

\* The word of index n was looked up with result r; then fprintf.
Looked(n, r, wrote) ==
    /\ rolled' = Append(rolled, U32Int(n))
    /\ dw' = [dw EXCEPT !.query = r.query]
    /\ sql' = r.sql
    /\ wordbuf' = IF r.rc = 0 THEN r.out ELSE wordbuf
    /\ IF r.rc # 0
       THEN /\ ret' = ("dw_generate" :> -1) @@ ret
            /\ pc' = "cleanup"
            /\ UNCHANGED <<output, i, spill>>
       ELSE \E g \in (IF r.out.terminated THEN {<<>>} ELSE Garbage) :
               IF wrote
               THEN /\ output' = output \o PrintWord(r.out, g)
                    /\ spill' = Append(spill, g)
                    /\ i' = i + 1
                    /\ UNCHANGED <<pc, ret>>
               ELSE /\ ret' = ("dw_generate" :> -1) @@ ret
                    /\ pc' = "cleanup"
                    /\ UNCHANGED <<output, i, spill>>

Rolled(n, env, wrote) ==
    Looked(n, _dw_get_word(dw, View(disk, txn), U32Int(n), WORD_BUF, env), wrote)

GenWord ==
    /\ pc = "generate"
    /\ i < len
    /\ \E draws \in RollSamples, env \in LookupEnvs, wrote \in BOOLEAN :
          /\ sql.rc = "SQLITE_BUSY" => env.prepare
          /\ roll' = [n |-> RollIndexFrom(U32Zero, draws, 1), j |-> NDICE,
                      draws |-> draws]
          /\ Rolled(RollIndexFrom(U32Zero, draws, 1), env, wrote)
    /\ busy' = 0
    /\ UNCHANGED <<runs, word_file, len, txn, disk, disk0, count, exitCode>>

\* A dw_generate that ends without its newline (the fault C6 excludes).
GenNewline_silent ==
    /\ pc = "generate"
    /\ i >= len
    /\ output' = output
    /\ ret' = ("dw_generate" :> 0) @@ ret
    /\ pc' = "cleanup"
    /\ UNCHANGED <<runs, word_file, len, dw, txn, disk, disk0, i, roll, rolled,
                   wordbuf, spill, count, busy, sql, exitCode>>

\* fprintf(output, "\n"), then return.
GenNewline ==
    /\ pc = "generate"
    /\ i >= len
    /\ \E wrote \in BOOLEAN :
          IF wrote
          THEN /\ output' = output \o <<NL>>
               /\ ret' = ("dw_generate" :> 0) @@ ret
          ELSE /\ output' = output
               /\ ret' = ("dw_generate" :> -1) @@ ret
    /\ pc' = "cleanup"
    /\ UNCHANGED <<runs, word_file, len, dw, txn, disk, disk0, i, roll, rolled, wordbuf,
                   spill, count, busy, sql, exitCode>>

\* main_cleanup: dw_close, then main_exit.
MainCleanup ==
    /\ pc = "cleanup"
    /\ dw' = dw_close(dw, txn).dw
    /\ txn' = dw_close(dw, txn).txn
    /\ pc' = "exited"
    /\ exitCode' = main_return(IF Failed("dw_generate") THEN EXIT_FAILURE ELSE 0)
    /\ UNCHANGED <<runs, word_file, len, disk, disk0, output, i, roll, rolled, wordbuf,
                   spill, count, busy, sql, ret>>

Next ==
    \/ MainStart
    \/ DwOpen
    \/ CreateBegin
    \/ CreateSchema
    \/ InsertBusy
    \/ CreatePopulate
    \/ CreateRollback
    \/ CreateCommit
    \/ MainGenerate
    \/ LookupBusy
    \/ GenWord
    \/ GenNewline
    \/ MainCleanup

Spec == Init /\ [][Next]_vars

(***************************************************************************)
(* The retry loops.  Busy is one more pass of a loop that retries while    *)
(* sqlite3 answers SQLITE_BUSY; Answered is a step of dw_create or         *)
(* dw_generate other than those: where a loop is running, the storage      *)
(* answered something else than busy.  SpecFair is the program with a      *)
(* storage that does not answer busy for ever.                             *)
(***************************************************************************)
Busy ==
    \/ InsertBusy
    \/ LookupBusy
    \/ (CreateRollback /\ pc' = pc)
    \/ (CreateCommit /\ pc' = pc)

Answered ==
    \/ (DwOpen /\ word_file # "NULL")
    \/ CreateBegin
    \/ CreateSchema
    \/ CreatePopulate
    \/ (CreateRollback /\ pc' # pc)
    \/ (CreateCommit /\ pc' # pc)
    \/ GenWord
    \/ GenNewline

SpecFair == Spec /\ WF_vars(Answered)

(***************************************************************************)
(* The inner loop of dw_generate on its own, one draw at a time and with   *)
(* every draw arc4random_uniform can make: a process that opened a store   *)
(* and rolls for word after word.                                          *)
(***************************************************************************)
InitDice ==
    /\ runs = 1
    /\ pc = "roll"
    /\ word_file = "NULL"
    /\ len = 1
    /\ dw = dw_open
    /\ txn = NoTxn
    /\ disk = FreshDisk
    /\ disk0 = FreshDisk
    /\ output = <<>>
    /\ i = 0
    /\ roll = NoRoll
    /\ rolled = <<>>
    /\ wordbuf = NoWord
    /\ spill = <<>>
    /\ count = 0
    /\ busy = 0
    /\ sql = NoSql
    /\ ret = ("dw_open" :> 0)
    /\ exitCode = EXIT_SUCCESS

\* n = 0; and what the lookup of the word before was given is forgotten.
RollStart ==
    /\ pc = "rolled"
    /\ roll' = NoRoll
    /\ rolled' = <<>>
    /\ pc' = "roll"
    /\ UNCHANGED <<runs, word_file, len, dw, txn, disk, disk0, output, i,
                   wordbuf, spill, count, busy, sql, ret, exitCode>>

\* One pass of for (j = 0; j < NDICE; j++).
RollDie ==
    /\ pc = "roll"
    /\ roll.j < NDICE
    /\ \E raw \in arc4random_uniform(MAX_DIE_ROLL) :
          roll' = [n |-> DieStep(roll.n, raw), j |-> roll.j + 1,
                   draws |-> Append(roll.draws, raw)]
    /\ UNCHANGED <<runs, pc, word_file, len, dw, txn, disk, disk0, output, i,
                   rolled, wordbuf, spill, count, busy, sql, ret, exitCode>>

\* The loop is left and n is handed to _dw_get_word.
RollLookup ==
    /\ pc = "roll"
    /\ roll.j >= NDICE
    /\ rolled' = Append(rolled, U32Int(roll.n))
    /\ pc' = "rolled"
    /\ UNCHANGED <<runs, word_file, len, dw, txn, disk, disk0, output, i, roll,
                   wordbuf, spill, count, busy, sql, ret, exitCode>>

NextDice ==
    \/ RollStart
    \/ RollDie
    \/ RollLookup

SpecDice == InitDice /\ [][NextDice]_vars

(***************************************************************************)
(* What the properties speak of.                                           *)
(***************************************************************************)
Succeeded(f) == Returned(f) /\ ret[f] = 0

\* The ids that have a row.
IdsOf(rows) == {id \in DOMAIN rows : rows[id] # NoRow}

\* The rows a process that opens db_path reads.
StoreRows == View(disk, NoTxn).rows

\* The rows the statements of the running process read.
ReadRows == View(disk, txn).rows

\* The records of a word list, two tokens each.
RecordCount(file) == Len(file) \div 2

RecordIndex(file, k) == ScanInt(file, [t |-> 2 * k - 1, o |-> 0]).val

RecordIds(file, n) == {RecordIndex(file, k) : k \in 1..n}

\* The word each index is paired with by the records lo..hi of a list (the
\* first one, where an index comes twice).
RECURSIVE PairsIn(_, _, _)
PairsIn(file, lo, hi) ==
    IF lo > hi THEN <<>>
    ELSE IF lo = hi THEN RecordIndex(file, lo) :> file[2 * lo]
    ELSE PairsIn(file, lo, (lo + hi) \div 2)
            @@ PairsIn(file, ((lo + hi) \div 2) + 1, hi)

PairsOf(file) == PairsIn(file, 1, RecordCount(file))

Paired ==
    [full |-> PairsOf(WordListFile.full),
     few |-> PairsOf(WordListFile.few),
     extra |-> PairsOf(WordListFile.extra),
     foreign |-> PairsOf(WordListFile.foreign),
     dupfirst |-> PairsOf(WordListFile.dupfirst),
     duplast |-> PairsOf(WordListFile.duplast),
     longword |-> PairsOf(WordListFile.longword),
     malformed |-> PairsOf(WordListFile.malformed),
     noword |-> PairsOf(WordListFile.noword),
     overlong |-> PairsOf(WordListFile.overlong)]

\* A record is well formed: an integer, then a word of at most SCAN_WIDTH bytes.
WellFormedRecord(file, k) ==
    /\ \A b \in 1..Len(file[2 * k - 1]) : IsDigit(file[2 * k - 1][b])
    /\ Len(file[2 * k]) \in 1..SCAN_WIDTH

\* The word lists C3 speaks of: at least MIN_ENTRIES well-formed records, the
\* valid indices covered, each index paired with one word.
Covering(file) ==
    /\ Len(file) % 2 = 0
    /\ RecordCount(file) >= MIN_ENTRIES
    /\ \A k \in 1..RecordCount(file) : WellFormedRecord(file, k)
    /\ Cardinality(RecordIds(file, RecordCount(file))) = RecordCount(file)
    /\ ValidIndices \subseteq RecordIds(file, RecordCount(file))

CoveringLists == {name \in WordListNames : Covering(WordListFile[name])}

\* The word list the store read by the running process was made from.
StoreList ==
    IF word_file # "NULL" THEN word_file
    ELSE IF disk.rows # NoLoads THEN disk.rows[1].file
    ELSE "NULL"

\* What fprintf's %s printed for the k-th word: the stored word when it and
\* its terminator fit the buffer, else its first WORD_BUF bytes and the bytes
\* that followed the buffer.
Printed(k) ==
    IF Len(GET_WORD(ReadRows, rolled[k])) < WORD_BUF
    THEN GET_WORD(ReadRows, rolled[k])
    ELSE SubSeq(GET_WORD(ReadRows, rolled[k]), 1, WORD_BUF) \o spill[k]

\* The first k words, each followed by a space.
RECURSIVE SpacedWords(_)
SpacedWords(k) ==
    IF k = 0 THEN <<>> ELSE SpacedWords(k - 1) \o Printed(k) \o <<SP>>

\* The first k words with a space between two of them.
RECURSIVE JoinedWords(_)
JoinedWords(k) ==
    IF k = 0 THEN <<>>
    ELSE IF k = 1 THEN Printed(1)
    ELSE JoinedWords(k - 1) \o <<SP>> \o Printed(k)

\* The first k stored words, in full, each followed by a space.
RECURSIVE StoredWords(_)
StoredWords(k) ==
    IF k = 0 THEN <<>>
    ELSE StoredWords(k - 1) \o GET_WORD(ReadRows, rolled[k]) \o <<SP>>

\* d0*10^4 + d1*10^3 + d2*10^2 + d3*10 + d4 of the die values draws[k] + 1.
RECURSIVE DecimalIndex(_, _)
DecimalIndex(draws, k) ==
    IF k > Len(draws) THEN 0
    ELSE (draws[k] + 1) * Pow(10, Len(draws) - k) + DecimalIndex(draws, k + 1)

\* The indices the NDICE draws can build.
Rollable == {RollIndex(draws) : draws \in AllDraws}

(***************************************************************************)
(* C1.  Whenever dw_create returned failure, whatever the cause, the store *)
(* at db_path holds what it held when the process started: none of the     *)
(* entries the failed call inserted is visible to a later dw_open and      *)
(* lookup.                                                                 *)
(***************************************************************************)
C1_AllOrNothing ==
    Failed("dw_create") =>
        /\ disk = disk0
        /\ StoreRows = View(disk0, NoTxn).rows

\* dw_create failed after it had inserted entries, on a list that has a
\* malformed record after them.
C1_Witness ==
    /\ Failed("dw_create")
    /\ word_file = "malformed"
    /\ count = FewRecords
    /\ pc = "exited"

(***************************************************************************)
(* C2.  As claimed: after every successful dw_create the store contains    *)
(* precisely 7776 entries, one for each valid index and none for any other *)
(* index.                                                                  *)
(***************************************************************************)
C2_Original ==
    (pc = "loaded" /\ Succeeded("dw_create")) => IdsOf(StoreRows) = ValidIndices

(***************************************************************************)
(* C2, amended.  After every successful dw_create the store contains       *)
(* exactly one entry for each record inserted: at least 7776 entries, with  *)
(* the indices of the first count records of the word list, which are      *)
(* pairwise distinct, and no other entry.  They are the 7776 valid indices *)
(* when those records carry only valid indices.                            *)
(***************************************************************************)
C2_OnePerRecord ==
    (pc = "loaded" /\ Succeeded("dw_create")) =>
        /\ count >= MIN_ENTRIES
        /\ Cardinality(IdsOf(StoreRows)) = count
        /\ IdsOf(StoreRows) = RecordIds(WordListFile[word_file], count)
        /\ (RecordIds(WordListFile[word_file], count) \subseteq ValidIndices
               => IdsOf(StoreRows) = ValidIndices)

\* dw_create succeeded on a list with an index that is not valid.
C2_Witness ==
    /\ pc = "loaded"
    /\ Succeeded("dw_create")
    /\ count > MIN_ENTRIES
    /\ 0 \in IdsOf(StoreRows)

(***************************************************************************)
(* C3.  As claimed: for a word list with at least 7776 well-formed records *)
(* covering the valid indices, dw_create fails only when the storage does, *)
(* and every lookup of a valid index finds its row and leaves in the       *)
(* caller's buffer the word the list pairs with that index.                *)
(***************************************************************************)
C3_Original ==
    /\ (pc = "rollback" /\ word_file \in CoveringLists)
          => txn.rows[Len(txn.rows)].env # "none"
    /\ (pc = "generate" /\ i > 0 /\ StoreList \in CoveringLists) =>
          /\ GET_WORD(ReadRows, rolled[i]) # NoRow
          /\ wordbuf.terminated
          /\ wordbuf.bytes = Paired[StoreList][rolled[i]]

(***************************************************************************)
(* C4.  As claimed: every word dw_generate writes equals, in full, the     *)
(* word stored at the index rolled for its position, whatever its length.  *)
(***************************************************************************)
C4_Original ==
    pc = "generate" => output = StoredWords(i)

(***************************************************************************)
(* C5.  As claimed: a successful dw_generate of N > 0 words writes         *)
(* word_1, one space, word_2, ..., word_N, then one newline, and nothing   *)
(* else.                                                                   *)
(***************************************************************************)
C5_Original ==
    (Succeeded("dw_generate") /\ len > 0) => output = JoinedWords(len) \o <<NL>>

(***************************************************************************)
(* C5, amended.  A successful dw_generate of N > 0 words writes, for each  *)
(* of the N words in order, what %s prints for it and then one space, the  *)
(* last word too, then one newline, and nothing else.                      *)
(***************************************************************************)
C5_SpaceAfterEach ==
    (Succeeded("dw_generate") /\ len > 0) =>
        /\ Len(rolled) = len
        /\ output = SpacedWords(len) \o <<NL>>

\* dw_generate succeeded with two words.
C5_Witness == Succeeded("dw_generate") /\ len = 2 /\ i = 2

(***************************************************************************)
(* C6.  As claimed: dw_generate of 0 words rolls no die and looks nothing  *)
(* up, writes one newline and nothing else, and returns success, whatever  *)
(* the store holds.                                                        *)
(***************************************************************************)
C6_Original ==
    (Returned("dw_generate") /\ len = 0) =>
        /\ rolled = <<>>
        /\ roll = NoRoll
        /\ dw.query = "null"
        /\ output = <<NL>>
        /\ ret["dw_generate"] = 0

(***************************************************************************)
(* C6, amended.  dw_generate of 0 words rolls no die and looks nothing up, *)
(* whatever the store holds; it writes one newline and nothing else and    *)
(* returns success, unless the write of the newline fails: then nothing is *)
(* written and -1 is returned.                                             *)
(***************************************************************************)
C6_NewlineOrError ==
    (Returned("dw_generate") /\ len = 0) =>
        /\ rolled = <<>>
        /\ roll = NoRoll
        /\ dw.query = "null"
        /\ \/ output = <<NL>> /\ ret["dw_generate"] = 0
           \/ output = <<>> /\ ret["dw_generate"] = -1

\* dw_generate of 0 words succeeded on a store that has no table.
C6_Witness ==
    /\ Succeeded("dw_generate")
    /\ len = 0
    /\ ~disk.table
    /\ output = <<NL>>

(***************************************************************************)
(* C7.  Every index dw_generate hands to the lookup is built from exactly  *)
(* NDICE die values d0..d4, each in 1..6, as d0*10^4 + d1*10^3 + d2*10^2   *)
(* + d3*10 + d4, the first roll most significant: the accumulator holds    *)
(* that value after each roll, without overflow; every index looked up is  *)
(* one of the 7776 valid ones, and every valid one can be rolled.          *)
(***************************************************************************)
C7_DecimalIndex ==
    /\ roll.j = Len(roll.draws)
    /\ roll.j <= NDICE
    /\ U32Int(roll.n) = DecimalIndex(roll.draws, 1)
    /\ \A k \in 1..Len(rolled) :
          /\ roll.j = NDICE
          /\ \A d \in 1..NDICE : roll.draws[d] + 1 \in 1..MAX_DIE_ROLL
          /\ rolled[k] = DecimalIndex(roll.draws, 1)
          /\ IsValidIndex(rolled[k])
          /\ rolled[k] \in ValidIndices
    /\ Rollable = ValidIndices
    /\ Cardinality(ValidIndices) = MIN_ENTRIES

\* The lookup is handed 66666 after five draws of 5.
C7_Witness ==
    /\ pc = "rolled"
    /\ roll.draws = <<5, 5, 5, 5, 5>>
    /\ rolled = <<66666>>

(***************************************************************************)
(* C8.  dw_generate returns -1 at once on the first lookup or write that   *)
(* fails: when word k fails, the k-1 words before it, each with its space, *)
(* are what the output holds, no index after the k-th was rolled or looked *)
(* up, and no newline was written.                                         *)
(***************************************************************************)
C8_FailFast ==
    Failed("dw_generate") =>
        /\ output = SpacedWords(i)
        /\ Len(spill) = i
        /\ Len(rolled) = (IF i < len THEN i + 1 ELSE len)
        /\ \A b \in 1..Len(output) : output[b] # NL
        /\ pc \in {"cleanup", "exited"}

\* The second of two words failed after the first was written.
C8_Witness ==
    /\ Failed("dw_generate")
    /\ len = 2
    /\ i = 1
    /\ Len(rolled) = 2
    /\ output # <<>>

(***************************************************************************)
(* C9.  As claimed: when dw_create returns failure after the connection    *)
(* was opened, dw_close has released the connection and the prepared       *)
(* statements before the return.                                           *)
(***************************************************************************)
C9_Original ==
    (Failed("dw_create") /\ dw.db # "null") =>
        /\ dw.db = "closed"
        /\ dw.insert # "live"
        /\ dw.query # "live"

(***************************************************************************)
(* C10.  As claimed: the process ends with the failure exit code whenever  *)
(* dw_open, dw_create or dw_generate returned a negative value.            *)
(***************************************************************************)
C10_Original ==
    (pc = "exited" /\ \E f \in DOMAIN ret : ret[f] < 0) => exitCode = EXIT_FAILURE

(***************************************************************************)
(* C11.  As claimed: once dw_close has returned on a store that dw_open or *)
(* dw_create handed out, the connection is closed and the insert and query *)
(* statements are finalized, also when a statement was outstanding at the  *)
(* moment of the close.                                                    *)
(***************************************************************************)
C11_Original ==
    (pc = "exited" /\ (Succeeded("dw_open") \/ Succeeded("dw_create"))) =>
        /\ dw.db = "closed"
        /\ dw.insert \in {"null", "finalized"}
        /\ dw.query \in {"null", "finalized"}

(***************************************************************************)
(* C12.  As claimed: no core function returns failure because a storage    *)
(* step answered busy; the sqlite3 result behind a returned failure is     *)
(* never SQLITE_BUSY, for begin, schema creation, insert, commit, rollback *)
(* and query alike.                                                        *)
(***************************************************************************)
C12_Original ==
    \A f \in DOMAIN ret : ret[f] < 0 => sql.rc # "SQLITE_BUSY"

\* The environment fault, if any, under which the running dw_create read its
\* word list.
PopulateEnv == txn.rows[Len(txn.rows)].env

\* The word lists with a malformed record, and the 0-based position of it.
MalformedAt == [malformed |-> FewRecords, noword |-> FewRecords]

(***************************************************************************)
(* C14.  As claimed: when the record at position k of the word list has a  *)
(* non-numeric index or lacks its word token, _dw_populate inserts exactly *)
(* the k records before it and nothing after it, and dw_create rolls back  *)
(* when k < 7776.                                                          *)
(***************************************************************************)
C14_Original ==
    (/\ pc \in {"rollback", "commit"}
     /\ word_file \in DOMAIN MalformedAt
     /\ PopulateEnv = "none") =>
        /\ count = MalformedAt[word_file]
        /\ IdsOf(ReadRows) = RecordIds(Canon, MalformedAt[word_file])
        /\ pc = "rollback"

\* The insert of a record failed: the last sqlite3 result tested is that of
\* an insert step that neither completed nor is being retried.
InsertFailed ==
    /\ sql.call = "INSERT_WORD"
    /\ sql.rc \notin {"SQLITE_DONE", "SQLITE_BUSY"}

(***************************************************************************)
(* C15.  As claimed: when the insert of a record of the word list fails,   *)
(* at whatever position, dw_create goes on to roll back and return         *)
(* failure; it never goes on to commit.                                    *)
(***************************************************************************)
C15_Original ==
    (pc \in {"rollback", "commit"} /\ InsertFailed) => pc = "rollback"

\* The word lists with an index that comes twice: the 1-based positions of
\* its first and second record.
DuplicateAt ==
    [dupfirst |-> [first |-> 1, second |-> 2],
     duplast |-> [first |-> MIN_ENTRIES, second |-> MIN_ENTRIES + 1]]

\* The index that comes twice in the word list of the running dw_create.
DuplicateIndex == RecordIndex(WordListFile[word_file], DuplicateAt[word_file].first)

\* _dw_populate has returned from reading a list with a duplicate index,
\* without a fault of the environment.
ReadDuplicate ==
    /\ pc \in {"rollback", "commit"}
    /\ word_file \in DOMAIN DuplicateAt
    /\ PopulateEnv = "none"

(***************************************************************************)
(* C16.  As claimed: when two records of the word list carry the same      *)
(* index, both are inserted and counted, so every record of the list is    *)
(* counted.                                                                *)
(***************************************************************************)
C16_Original ==
    ReadDuplicate => count = RecordCount(WordListFile[word_file])

(***************************************************************************)
(* C16, amended.  The insert of the second record of an index fails on the *)
(* primary key and ends the parsing: the records before it are the ones    *)
(* inserted and counted, the index keeps the word of its first record, and *)
(* dw_create rolls back exactly when fewer than 7776 records preceded the  *)
(* duplicate.                                                              *)
(***************************************************************************)
C16_FirstKept ==
    ReadDuplicate =>
        /\ RecordIndex(WordListFile[word_file], DuplicateAt[word_file].second)
              = DuplicateIndex
        /\ count = DuplicateAt[word_file].second - 1
        /\ IdsOf(ReadRows) = RecordIds(WordListFile[word_file], count)
        /\ GET_WORD(ReadRows, DuplicateIndex)
              = WordListFile[word_file][2 * DuplicateAt[word_file].first]
        /\ sql.call = "INSERT_WORD" => sql.rc = "SQLITE_CONSTRAINT"
        /\ (pc = "rollback") = (count < MIN_ENTRIES)

\* The second record of the list repeated the index of the first: one record
\* was counted and dw_create is about to roll back.
C16_Witness ==
    /\ pc = "rollback"
    /\ word_file = "dupfirst"
    /\ count = 1
    /\ sql = SqlResult("INSERT_WORD", "SQLITE_CONSTRAINT")

(***************************************************************************)
(* C17.  As claimed: a record whose word is longer than 63 bytes is taken  *)
(* with the first 63 bytes as its word and counts as one record, and the   *)
(* parsing goes on with the next record: of the list of 7776 records whose *)
(* second word is too long, all 7776 are inserted, the second index paired *)
(* with the first 63 bytes of its token.                                   *)
(***************************************************************************)
C17_Original ==
    (/\ pc \in {"rollback", "commit"}
     /\ word_file = "overlong"
     /\ PopulateEnv = "none") =>
        /\ GET_WORD(ReadRows, RecordIndex(Canon, 2))
              = SubSeq(WordListFile.overlong[4], 1, SCAN_WIDTH)
        /\ count = RecordCount(WordListFile.overlong)
        /\ pc = "commit"

\* The k-th index rolled by the running process has no entry in the store.
Missing(k) == GET_WORD(ReadRows, rolled[k]) = NoRow

CreateOnStore ==
    /\ word_file # "NULL"
    /\ disk0.table
    /\ disk0.rows # NoLoads

(***************************************************************************)
(* C20.  dw_create on a path that holds a committed, populated store: the  *)
(* schema creation fails, so no record is read or inserted and nothing is  *)
(* rolled back or committed; dw_create returns failure; and the store is,  *)
(* entry for entry, what it was when the process started, in the file and  *)
(* in what the connection reads.                                           *)
(***************************************************************************)
C20_StoreKept ==
    CreateOnStore =>
        /\ pc \notin {"populate", "rollback", "commit", "loaded", "generate",
                      "cleanup"}
        /\ count = 0
        /\ dw.insert = "null"
        /\ Returned("dw_create") => Failed("dw_create")
        /\ disk = disk0
        /\ StoreRows = RowsOf(disk0.rows)
        /\ ReadRows = RowsOf(disk0.rows)
        /\ sql.call = "CREATE_TABLES" => sql.rc \in {"SQLITE_BUSY", "SQLITE_ERROR"}

\* A second process ran dw_create on the store the first had committed from
\* the complete list, and was refused at the schema creation.
C20_Witness ==
    /\ CreateOnStore
    /\ runs = 2
    /\ disk0.rows = <<[file |-> "full", env |-> "none"]>>
    /\ Failed("dw_create")
    /\ sql = SqlResult("CREATE_TABLES", "SQLITE_ERROR")
    /\ pc = "exited"

\* dw_create is running.
InCreate ==
    /\ word_file # "NULL"
    /\ pc \in {"open", "begin", "schema", "populate", "rollback", "commit"}

\* dw_generate is running.
InGenerate == pc = "generate"

\* A loop that retries on SQLITE_BUSY is running.
InRetryLoop ==
    \/ pc \in {"populate", "rollback", "commit"}
    \/ pc = "generate" /\ i < len /\ (dw.query # "null" \/ TableSeen)

(***************************************************************************)
(* C19.  With a storage that does not answer busy for ever, every call of  *)
(* dw_create and every call of dw_generate returns, with success or with   *)
(* failure.  The loops themselves have no bound: wherever one of them is   *)
(* running another busy answer is taken and retried, however many came     *)
(* before it.                                                              *)
(***************************************************************************)
C19_Returns ==
    /\ InCreate ~> Returned("dw_create")
    /\ InGenerate ~> Returned("dw_generate")
    /\ [](InRetryLoop => ENABLED Busy)

\* The commit was answered busy MaxBusy times in a row and is being retried.
C19_Witness ==
    /\ pc = "commit"
    /\ busy = MaxBusy
    /\ sql = SqlResult("END_TRANSACTION", "SQLITE_BUSY")

====
